---- MODULE Spec2Model ----
(***************************************************************************)
(* Model of nipype/interfaces/dipy/tensors.py: the three dipy adapters     *)
(* DKI, DTI and TensorMode.  One behaviour is one adapter instance: its    *)
(* inputs are fixed by Init, _run_interface is executed statement by       *)
(* statement (pc is the position in the method), and _list_outputs may be  *)
(* called on the instance.  The external library (nibabel, dipy) is        *)
(* modelled by what the adapter hands to it and gets back; every call into *)
(* it may raise.                                                           *)
(***************************************************************************)
EXTENDS Integers, Sequences, FiniteSets, TLC

\* ------------------------------------------------------------------ bounds
NVox == 2

\* --------------------------------------------------------------- constants
Threshold == 50

Voxels == 1..NVox
FirstVals == (Threshold - 1)..(Threshold + 1)
OtherVals == {0, 100}
Affines == {"affineA", "affineB"}
Templates == {"diffusion", "sub01"}
Adapters == {"DKI", "DTI", "TensorMode"}
\* An undefined File trait / the Python value None, as a mask volume.
Undefined == [defined |-> FALSE, voxels |-> {}]
None == [defined |-> FALSE, voxels |-> {}]

VARIABLES adapter, in_file, mask_file, template,
          pc, status, extFail,
          img, data, affine, gtab, mask, fit, metric_idx, out_name,
          files, log, trace, maskLoaded,
          outputs, listed, requested

inputVars == <<adapter, in_file, mask_file, template>>
localVars == <<img, data, affine, gtab, mask, fit, metric_idx, out_name>>
effectVars == <<files, log, trace, maskLoaded>>
listVars == <<outputs, listed>>
vars == <<adapter, in_file, mask_file, template, pc, status, extFail,
          img, data, affine, gtab, mask, fit, metric_idx, out_name,
          files, log, trace, maskLoaded, outputs, listed, requested>>

\* ------------------------------------------------------ class declarations
\* The input_spec / output_spec class attributes assigned in each class body.
\* The body of DKI assigns neither, so DKI keeps what its base class has.
input_spec(a) ==
  CASE a = "DTI" -> "DTIInputSpec"
    [] a = "TensorMode" -> "TensorModeInputSpec"
    [] OTHER -> "Inherited"

output_spec(a) ==
  CASE a = "DTI" -> "DTIOutputSpec"
    [] a = "TensorMode" -> "TensorModeOutputSpec"
    [] OTHER -> "Inherited"

\* Output slots declared by the three output specification classes.
DKIOutputSpec == {"out_file", "fa_file", "md_file", "rd_file", "ad_file",
                  "mk_file", "ak_file", "rk_file"}
DTIOutputSpec == {"out_file", "fa_file", "md_file", "rd_file", "ad_file"}
TensorModeOutputSpec == {"out_file"}

\* mask_file is the one trait each of the three input specifications adds.
DKIInputSpec == {"mask_file"}
DTIInputSpec == {"mask_file"}
TensorModeInputSpec == {"mask_file"}

\* ------------------------------------------------------------- tokens
\* A message is a sequence of tokens: literal text, a format placeholder,
\* or a filename.
Lit(s) == [t |-> "lit", a |-> s, b |-> ""]
Ph(s) == [t |-> "ph", a |-> s, b |-> ""]

\* self._gen_filename(name): base template plus metric name.
_gen_filename(tpl, name) == [t |-> "file", a |-> tpl, b |-> name]

\* str.format: every placeholder that has an argument is replaced by it.
Format(tpl, args) ==
  [i \in DOMAIN tpl |->
     IF tpl[i].t = "ph" /\ tpl[i].a \in DOMAIN args THEN args[tpl[i].a]
     ELSE tpl[i]]

\* ------------------------------------------------------ per-adapter code
\* Name passed to _gen_filename for the first file of _run_interface.
RunTensorName(a) ==
  CASE a = "DKI" -> "dki" [] a = "DTI" -> "dti" [] OTHER -> "mode"

\* ListTensorName with the DTI name copied into DKI.
ListTensorNameCopied(a) == IF a = "TensorMode" THEN "mode" ELSE "dti"

\* Name passed to _gen_filename for out_file in _list_outputs.
ListTensorName(a) ==
  CASE a = "DKI" -> "dki" [] a = "DTI" -> "dti" [] OTHER -> "mode"

\* The metric list of the for loop of _run_interface.
RunMetrics(a) ==
  CASE a = "DKI" -> <<"fa", "md", "rd", "ad", "mk", "ak", "rk">>
    [] a = "DTI" -> <<"fa", "md", "rd", "ad">>
    [] OTHER -> <<>>

\* The metric list of the for loop of _list_outputs.
ListMetrics(a) ==
  CASE a = "DKI" -> <<"fa", "md", "rd", "ad", "mk", "ak", "rk">>
    [] a = "DTI" -> <<"fa", "md", "rd", "ad">>
    [] OTHER -> <<>>

\* The key _list_outputs assigns for a metric.
OutputKey(a, m) ==
  IF a = "DKI" THEN m
  ELSE CASE m = "fa" -> "fa_file" [] m = "md" -> "md_file"
         [] m = "rd" -> "rd_file" [] m = "ad" -> "ad_file"
         [] m = "mk" -> "mk_file" [] m = "ak" -> "ak_file"
         [] OTHER -> "rk_file"

\* Prelude with the first file saved before the model is fitted.
PreludeSaveFirst(a) ==
  IF a = "TensorMode"
  THEN <<"load", "gtab", "mask", "tensor", "save", "fit", "log">>
  ELSE <<"gtab", "load", "mask", "tensor", "save", "fit", "log">>

\* The statements of _run_interface before the metric loop, in program order.
Prelude(a) ==
  IF a = "TensorMode"
  THEN <<"load", "gtab", "mask", "fit", "tensor", "save", "log">>
  ELSE <<"gtab", "load", "mask", "fit", "tensor", "save", "log">>

PosOf(a, p) == CHOOSE i \in DOMAIN Prelude(a) : Prelude(a)[i] = p

\* Statement that follows prelude statement p.
After(a, p) ==
  IF PosOf(a, p) < Len(Prelude(a)) THEN Prelude(a)[PosOf(a, p) + 1]
  ELSE IF RunMetrics(a) # <<>> THEN "metric" ELSE "return"

\* The message logged after the first file is saved.
TensorMessage(a, out_file) ==
  CASE a = "DKI" -> <<Lit("DKI parameters image saved as "), Ph("i"),
                      Lit(".format(i=out_file)")>>
    [] a = "DTI" -> Format(<<Lit("DTI parameters image saved as "), Ph("i")>>,
                           [x \in {"i"} |-> out_file])
    [] OTHER -> Format(<<Lit("Tensor mode image saved as "), Ph("i")>>,
                       [x \in {"i"} |-> out_file])

\* The message logged after a metric file is written.
MetricMessage(a, m, name) ==
  Format(<<Lit(a), Lit(" "), Ph("metric"), Lit(" image saved as "), Ph("i")>>,
         [x \in {"i", "metric"} |-> IF x = "i" THEN name ELSE Lit(m)])

\* ThresholdMask with an inclusive comparison.
ThresholdMaskInclusive(d) == {v \in Voxels : d[v][1] >= Threshold}

\* mask = data[..., 0] > 50
ThresholdMask(d) == {v \in Voxels : d[v][1] > Threshold}

\* isdefined(self.inputs.mask_file)
isdefined(x) == x.defined

\* The value of the local variable mask when model.fit is reached.
MaskFor(a, d, mf) ==
  IF a = "TensorMode" THEN [defined |-> TRUE, voxels |-> ThresholdMask(d)]
  ELSE IF isdefined(mf) THEN mf ELSE None

\* model.fit(data, mask): the voxels fitted are those of the mask, all
\* voxels when the mask is None.
ExternalFit(a, m) ==
  [model |-> IF a = "DKI" THEN "DiffusionKurtosisModel" ELSE "TensorModel",
   voxels |-> IF m.defined THEN m.voxels ELSE Voxels,
   mask |-> m]

\* OutputAffine with the affine argument left out of the image constructor.
OutputAffineDefault(captured, current_img) == "identity"

\* The affine every output image is built with.
OutputAffine(captured, current_img) == captured

\* Running as if each statement were wrapped in try/except: pass.
RunningSwallowed == status \in {"running", "raised"}

\* A statement runs only while no exception has propagated.
Running == status = "running"

Event(s, o) == [step |-> s, out |-> o]

\* dict item assignment / writing a file: the last value for a key wins.
SetKey(d, k, v) == {e \in d : e.key # k} \cup {[key |-> k, value |-> v]}

Unset == [kind |-> "unset", metric |-> "", affine |-> "unset", voxels |-> {}]
NoVol == [v \in Voxels |-> <<0, 0>>]
NoFit == [model |-> "none", voxels |-> {}, mask |-> None]

Init ==
  /\ adapter \in Adapters
  /\ in_file \in [vol : [Voxels -> FirstVals \X OtherVals], affine : Affines]
  /\ mask_file \in {Undefined} \cup [defined : {TRUE}, voxels : SUBSET Voxels]
  /\ template \in Templates
  /\ pc = Prelude(adapter)[1]
  /\ status = "running"
  /\ extFail = FALSE
  /\ img = Unset
  /\ data = [kind |-> "unset", metric |-> "", vol |-> NoVol, voxels |-> {}]
  /\ affine = "unset"
  /\ gtab = "unset"
  /\ mask = None
  /\ fit = NoFit
  /\ metric_idx = 1
  /\ out_name = Lit("")
  /\ files = {}
  /\ log = <<>>
  /\ trace = <<>>
  /\ maskLoaded = FALSE
  /\ outputs = {}
  /\ listed = FALSE
  /\ requested = {}

\* gtab = self._get_gradient_table()
GetGradientTable ==
  /\ Running /\ pc = "gtab"
  /\ gtab' = "built"
  /\ trace' = Append(trace, Event("gtab", ""))
  /\ pc' = After(adapter, "gtab")
  /\ UNCHANGED <<inputVars, status, extFail, img, data, affine, mask, fit,
                 metric_idx, out_name, files, log, maskLoaded, listVars,
                 requested>>

\* img = nb.load(in_file); data = img.get_data(); affine = img.affine
LoadImage ==
  /\ Running /\ pc = "load"
  /\ img' = [kind |-> "input", metric |-> "", affine |-> in_file.affine,
             voxels |-> Voxels]
  /\ data' = [kind |-> "input", metric |-> "", vol |-> in_file.vol,
              voxels |-> Voxels]
  /\ affine' = in_file.affine
  /\ trace' = Append(trace, Event("load", ""))
  /\ pc' = After(adapter, "load")
  /\ UNCHANGED <<inputVars, status, extFail, gtab, mask, fit, metric_idx,
                 out_name, files, log, maskLoaded, listVars, requested>>

\* DKI, DTI: mask = None; if isdefined(mask_file): mask = nb.load(...)
\* TensorMode: mask = data[..., 0] > 50
MaskStep ==
  /\ Running /\ pc = "mask"
  /\ mask' = MaskFor(adapter, data.vol, mask_file)
  /\ maskLoaded' = (adapter # "TensorMode" /\ isdefined(mask_file))
  /\ trace' = IF mask'.defined THEN Append(trace, Event("mask", ""))
              ELSE trace
  /\ pc' = After(adapter, "mask")
  /\ UNCHANGED <<inputVars, status, extFail, img, data, affine, gtab, fit,
                 metric_idx, out_name, files, log, listVars, requested>>

\* model = Model(gtab); fit = model.fit(data, mask)
Fit ==
  /\ Running /\ pc = "fit"
  /\ fit' = ExternalFit(adapter, mask)
  /\ trace' = Append(trace, Event("fit", ""))
  /\ pc' = After(adapter, "fit")
  /\ UNCHANGED <<inputVars, status, extFail, img, data, affine, gtab, mask,
                 metric_idx, out_name, files, log, maskLoaded, listVars,
                 requested>>

\* DKI, DTI: img = nifti1_symmat(fit.lower_triangular(), affine)
\* TensorMode: img = nb.Nifti1Image(tenfit.mode, affine)
ExtractTensor ==
  /\ Running /\ pc = "tensor"
  /\ img' = [kind |-> IF adapter = "TensorMode" THEN "mode" ELSE "symmat",
             metric |-> RunTensorName(adapter),
             affine |-> OutputAffine(affine, img),
             voxels |-> fit.voxels]
  /\ trace' = Append(trace, Event("extract", RunTensorName(adapter)))
  /\ pc' = After(adapter, "tensor")
  /\ UNCHANGED <<inputVars, status, extFail, data, affine, gtab, mask, fit,
                 metric_idx, out_name, files, log, maskLoaded, listVars,
                 requested>>

\* out_file = self._gen_filename(name); nb.save(img, out_file)
SaveTensor ==
  /\ Running /\ pc = "save"
  /\ out_name' = _gen_filename(template, RunTensorName(adapter))
  /\ requested' = requested \cup
       {[by |-> "run", name |-> RunTensorName(adapter), fname |-> out_name']}
  /\ files' = SetKey(files, out_name', img)
  /\ trace' = Append(trace, Event("write", RunTensorName(adapter)))
  /\ pc' = After(adapter, "save")
  /\ UNCHANGED <<inputVars, status, extFail, img, data, affine, gtab, mask,
                 fit, metric_idx, log, maskLoaded, listVars>>

\* IFLOGGER.info(...) after the first file
LogTensor ==
  /\ Running /\ pc = "log"
  /\ log' = Append(log, TensorMessage(adapter, out_name))
  /\ trace' = Append(trace, Event("log", RunTensorName(adapter)))
  /\ pc' = After(adapter, "log")
  /\ UNCHANGED <<inputVars, status, extFail, img, data, affine, gtab, mask,
                 fit, metric_idx, out_name, files, maskLoaded, listVars,
                 requested>>

\* DTI: data = getattr(ten_fit, metric).astype("float32")
\* DKI: data = getattr(kurtosis_fit.metric).astype('float32'), which raises:
\* the fit object has no attribute named metric.
ExtractMetric ==
  /\ Running /\ pc = "metric"
  /\ IF adapter = "DKI"
     THEN /\ status' = "raised"
          /\ UNCHANGED <<data, trace, pc>>
     ELSE /\ data' = [kind |-> "metric",
                      metric |-> RunMetrics(adapter)[metric_idx],
                      vol |-> data.vol, voxels |-> fit.voxels]
          /\ trace' = Append(trace,
                         Event("extract", RunMetrics(adapter)[metric_idx]))
          /\ pc' = "mwrite"
          /\ UNCHANGED status
  /\ UNCHANGED <<inputVars, extFail, img, affine, gtab, mask, fit,
                 metric_idx, out_name, files, log, maskLoaded, listVars,
                 requested>>

\* out_name = self._gen_filename(metric)
\* nb.Nifti1Image(data, affine).to_filename(out_name)
WriteMetric ==
  /\ Running /\ pc = "mwrite"
  /\ out_name' = _gen_filename(template, RunMetrics(adapter)[metric_idx])
  /\ requested' = requested \cup
       {[by |-> "run", name |-> RunMetrics(adapter)[metric_idx],
         fname |-> out_name']}
  /\ files' = SetKey(files, out_name',
                     [kind |-> "metric", metric |-> data.metric,
                      affine |-> OutputAffine(affine, img),
                      voxels |-> data.voxels])
  /\ trace' = Append(trace, Event("write", RunMetrics(adapter)[metric_idx]))
  /\ pc' = "mlog"
  /\ UNCHANGED <<inputVars, status, extFail, img, data, affine, gtab, mask,
                 fit, metric_idx, log, maskLoaded, listVars>>

\* IFLOGGER.info(...) at the end of one loop iteration
LogMetric ==
  /\ Running /\ pc = "mlog"
  /\ log' = Append(log, MetricMessage(adapter, RunMetrics(adapter)[metric_idx],
                                      out_name))
  /\ trace' = Append(trace, Event("log", RunMetrics(adapter)[metric_idx]))
  /\ metric_idx' = metric_idx + 1
  /\ pc' = IF metric_idx < Len(RunMetrics(adapter)) THEN "metric" ELSE "return"
  /\ UNCHANGED <<inputVars, status, extFail, img, data, affine, gtab, mask,
                 fit, out_name, files, maskLoaded, listVars, requested>>

\* return runtime
Return ==
  /\ Running /\ pc = "return"
  /\ status' = "returned"
  /\ pc' = "done"
  /\ UNCHANGED <<inputVars, extFail, localVars, effectVars, listVars,
                 requested>>

\* The statements that call into nibabel or dipy and so may raise.
ExternalSteps(a, mf) ==
  {"gtab", "load", "fit", "tensor", "save", "metric", "mwrite"}
    \cup (IF a # "TensorMode" /\ isdefined(mf) THEN {"mask"} ELSE {})

\* An external call raises; nothing in _run_interface catches it.
Raise ==
  /\ Running /\ pc \in ExternalSteps(adapter, mask_file)
  /\ status' = "raised"
  /\ extFail' = TRUE
  /\ UNCHANGED <<inputVars, pc, localVars, effectVars, listVars, requested>>

RECURSIVE ListLoop(_, _, _, _)
\* for metric in [...]: outputs[key] = self._gen_filename(metric)
ListLoop(a, tpl, ms, d) ==
  IF ms = <<>> THEN d
  ELSE ListLoop(a, tpl, Tail(ms),
                SetKey(d, OutputKey(a, Head(ms)), _gen_filename(tpl, Head(ms))))

\* _list_outputs
ListOutputs ==
  /\ ~listed
  /\ outputs' = ListLoop(adapter, template, ListMetrics(adapter),
        SetKey({}, "out_file", _gen_filename(template, ListTensorName(adapter))))
  /\ listed' = TRUE
  /\ requested' = requested
       \cup {[by |-> "list", name |-> ListTensorName(adapter),
              fname |-> _gen_filename(template, ListTensorName(adapter))]}
       \cup {[by |-> "list", name |-> ListMetrics(adapter)[i],
              fname |-> _gen_filename(template, ListMetrics(adapter)[i])] :
              i \in DOMAIN ListMetrics(adapter)}
  /\ UNCHANGED <<inputVars, pc, status, extFail, localVars, effectVars>>

Next ==
  \/ GetGradientTable \/ LoadImage \/ MaskStep \/ Fit
  \/ ExtractTensor \/ SaveTensor \/ LogTensor
  \/ ExtractMetric \/ WriteMetric \/ LogMetric
  \/ Return \/ Raise \/ ListOutputs

Spec == Init /\ [][Next]_vars

\* ------------------------------------------------------------- properties
\* Output slots and metric names the specification expects of each adapter.
ExpectedSlots(a) ==
  CASE a = "DKI" -> DKIOutputSpec [] a = "DTI" -> DTIOutputSpec
    [] OTHER -> TensorModeOutputSpec

ExpectedNames(a) ==
  CASE a = "DKI" -> {"dki", "fa", "md", "rd", "ad", "mk", "ak", "rk"}
    [] a = "DTI" -> {"dti", "fa", "md", "rd", "ad"}
    [] OTHER -> {"mode"}

SlotOf(n) ==
  CASE n = "fa" -> "fa_file" [] n = "md" -> "md_file" [] n = "rd" -> "rd_file"
    [] n = "ad" -> "ad_file" [] n = "mk" -> "mk_file" [] n = "ak" -> "ak_file"
    [] n = "rk" -> "rk_file" [] OTHER -> "out_file"

Contains(msg, tok) == \E k \in DOMAIN msg : msg[k] = tok

Steps(s) == {i \in DOMAIN trace : trace[i].step = s}

\* C1: when no external call fails, _run_interface returns normally and
\* exactly one file has been written per declared output slot (DTI 5,
\* DKI 8, TensorMode 1), one for each expected name.
C1_Claim ==
  (status # "running" /\ ~extFail) =>
     /\ status = "returned"
     /\ Cardinality(files) = Cardinality(ExpectedSlots(adapter))
     /\ {f.value.metric : f \in files} = ExpectedNames(adapter)

\* C2: _list_outputs sets exactly the declared output slots of the adapter,
\* each to the filename generated for the metric of that slot.
C2_Claim ==
  listed =>
     /\ {e.key : e \in outputs} = ExpectedSlots(adapter)
     /\ \A n \in ExpectedNames(adapter) :
          [key |-> SlotOf(n), value |-> _gen_filename(template, n)] \in outputs

\* C3: each adapter class is bound to its own input specification and its
\* own output specification.
C3_Claim ==
  /\ input_spec(adapter) =
       (CASE adapter = "DKI" -> "DKIInputSpec" [] adapter = "DTI" -> "DTIInputSpec"
          [] OTHER -> "TensorModeInputSpec")
  /\ output_spec(adapter) =
       (CASE adapter = "DKI" -> "DKIOutputSpec"
          [] adapter = "DTI" -> "DTIOutputSpec"
          [] OTHER -> "TensorModeOutputSpec")

\* C4: every file written carries the affine of the input image, and the
\* affine captured at load time keeps that value for the rest of the run.
C4_AffinePreserved ==
  /\ affine # "unset" => affine = in_file.affine
  /\ \A f \in files : f.value.affine = in_file.affine

\* C4 witness: a metric volume has been written after img was reassigned
\* to the tensor image and data to a metric volume.
C4_Witness ==
  /\ img.kind = "symmat" /\ data.kind = "metric"
  /\ \E f \in files : f.value.kind = "metric" /\ f.value.affine = "affineB"

\* C5: for every adapter, the fit is invoked with the mask loaded from
\* mask_file when mask_file is defined, and with no mask (and no mask file
\* loaded) when it is not.
C5_Claim ==
  fit.model # "none" =>
     IF isdefined(mask_file)
     THEN maskLoaded /\ fit.mask = mask_file
     ELSE ~maskLoaded /\ ~fit.mask.defined

\* Position of a step in the sequence load, gradient table, mask, fit,
\* extract, write, log.
Rank(s) ==
  CASE s = "load" -> 1 [] s = "gtab" -> 2 [] s = "mask" -> 3 [] s = "fit" -> 4
    [] s = "extract" -> 5 [] s = "write" -> 6 [] OTHER -> 7

\* The same with image load and gradient table in one position.
RankEither(s) == IF s = "load" THEN 2 ELSE Rank(s)

\* Events i < j respect the ranking r: the steps up to the fit are ordered
\* against every step, extract/write/log are ordered per output file.
Ordered(r(_), i, j) ==
  IF r(trace[i].step) <= 4 \/ r(trace[j].step) <= 4
  THEN r(trace[i].step) <= r(trace[j].step)
  ELSE trace[i].out = trace[j].out => r(trace[i].step) <= r(trace[j].step)

\* C6 (as stated): the steps of a run occur in the order load image,
\* gradient table, mask, fit, extract, write, log; in particular the
\* gradient table is never built before the image is loaded.
C6_Claim ==
  /\ \A i, j \in DOMAIN trace : i < j => Ordered(Rank, i, j)
  /\ gtab = "built" => img.kind # "unset"

\* C6 (amended): image load and gradient table both precede the mask, the
\* mask precedes the fit, the fit precedes every extraction, write and log
\* message, and each output is extracted, then written, then logged; DKI
\* and DTI build the gradient table first, TensorMode loads the image first.
C6_Order ==
  /\ \A i, j \in DOMAIN trace : i < j => Ordered(RankEither, i, j)
  /\ \A i \in Steps("write") : \E k \in Steps("fit") : k < i
  /\ \A i \in Steps("fit") :
        (\E k \in Steps("load") : k < i) /\ (\E k \in Steps("gtab") : k < i)
  /\ \A i \in Steps("write") :
        \E k \in Steps("extract") : k < i /\ trace[k].out = trace[i].out
  /\ \A i \in Steps("log") :
        \E k \in Steps("write") : k < i /\ trace[k].out = trace[i].out
  /\ trace # <<>> =>
        trace[1].step = (IF adapter = "TensorMode" THEN "load" ELSE "gtab")

\* C6 witness: a DTI run that returned after logging its last metric, the
\* gradient table having been built before the image was loaded.
C6_Witness ==
  /\ adapter = "DTI" /\ status = "returned" /\ Len(trace) = 19
  /\ trace[1].step = "gtab" /\ trace[2].step = "load"

\* C7: every file written is reported by a log message emitted after the
\* write whose text contains the filename of that file.
C7_Claim ==
  \A f \in files :
     (\E j \in Steps("log") : trace[j].out = f.value.metric) =>
        \E i \in DOMAIN log : Contains(log[i], f.key)

C9_NoRecovery ==
  [][status = "raised" =>
       /\ status' = "raised"
       /\ files' = files /\ log' = log /\ trace' = trace /\ pc' = pc]_vars

\* C9 witness: an external call raised after files had been written, and
\* the instance was used again afterwards.
C9_Witness ==
  status = "raised" /\ extFail /\ Cardinality(files) >= 2 /\ listed

====
